---- MODULE Spec2Model ----
(***************************************************************************)
(* Real-Time Poll Rooms: the vote admission path (POST /api/votes over the *)
(* SQLite store) and the Socket.io room fanout of the server, together     *)
(* with the browser page that notifies the server after a vote.            *)
(*                                                                         *)
(* The server is one Node.js process and every database call goes through  *)
(* better-sqlite3, which is synchronous; the vote handler holds no await,  *)
(* so one request is handled in one uninterrupted step and concurrent      *)
(* requests are served in an arbitrary order.                              *)
(*                                                                         *)
(* The specifications share the state and the actions: Spec, the vote      *)
(* endpoint over the store with failing storage calls; SpecLive, the       *)
(* viewers of one poll; SpecRooms, the rooms of two polls; SpecBatch, a    *)
(* batch of concurrent votes on one poll behind the vote rate limiter;     *)
(* SpecAcross, such a batch with votes on a second poll; SpecAddress, the  *)
(* address a vote is attributed to; SpecCreate, poll creation with any     *)
(* body; SpecPage, the pages of one poll loading, voting, dropping and     *)
(* reconnecting; SpecForm, the option list of the creation form.           *)
(***************************************************************************)
EXTENDS Integers, Sequences, FiniteSets, TLC

(* ------------------------------ bounds -------------------------------- *)
MaxVotes == 2
MaxTicks == 1
MaxFaults == 1
TickMs == 300000
NumSockets == 2
MaxBroadcasts == 2
MaxBatch == 21
MaxShuffled == 3
MaxHops == 2
MaxElsewhere == 2

(* -------------------------- program constants ------------------------- *)
VOTES_PER_IP_PER_POLL == 1
VOTE_RATE_WINDOW_MS == 5 * 60 * 1000
VOTE_LIMIT_MAX == 20
VOTE_LIMIT_WINDOW_MS == 60 * 1000
\* validatePollData and sanitizeInput
MAX_QUESTION_LENGTH == 500
MAX_OPTION_LENGTH == 200
MIN_OPTIONS == 2
MAX_OPTIONS == 10
SANITIZE_LIMIT == 500
\* the length of '&lt;', which sanitizeInput puts for '<'
ESCAPED_LENGTH == 4
\* create.js addOption and removeOption
FORM_MAX_OPTIONS == 10
FORM_MIN_OPTIONS == 2

(* ------------------------------ JS values ----------------------------- *)
\* A JSON value of a request body: a number i or i + 0.5, a string, or a
\* missing field.
JSNumber(i, h) == [type |-> "number", int |-> i, half |-> h, str |-> ""]
JSString(s) == [type |-> "string", int |-> 0, half |-> FALSE, str |-> s]
JSUndefined == [type |-> "undefined", int |-> 0, half |-> FALSE, str |-> ""]

\* x < n and x >= n for a JS number x = int + (half ? 0.5 : 0), n an integer
NumLess(x, n) == x.int < n
NumGeq(x, n) == x.int >= n
IsInteger(x) == x.type = "number" /\ ~x.half

\* JS truthiness of a string-or-undefined value
Truthy(v) == v.type = "string" /\ v.str # ""

RECURSIVE SumSeq(_)
SumSeq(s) == IF s = <<>> THEN 0 ELSE Head(s) + SumSeq(Tail(s))

(* ------------------------------- inputs ------------------------------- *)
PollIds == {"pollAAAA", "pollBBBB"}
BadPollId == "bad"
OptionLists == {<<"Red", "Blue">>}
FingerprintInputs == {JSString("f1"), JSString("f2")}

\* One hop of an X-Forwarded-For list, as split(',') leaves it: the text and
\* whether blanks surround it.
Hop(padded, text) == [padded |-> padded, text |-> text]
ViaProxy == [xff |-> <<Hop(FALSE, "10.0.0.1"), Hop(TRUE, "10.0.0.9")>>,
             xRealIp |-> "10.0.0.9", remoteAddress |-> "10.0.0.9"]
ViaRealIp == [xff |-> <<>>, xRealIp |-> "10.0.0.2", remoteAddress |-> "10.0.0.9"]
\* a client connecting straight to the server, and one behind the proxy
DirectFrom(address) == [xff |-> <<>>, xRealIp |-> "", remoteAddress |-> address]
ProxiedFrom(address) == [xff |-> <<Hop(FALSE, address)>>, xRealIp |-> "",
                         remoteAddress |-> "10.0.0.9"]
HeaderInputs == {ViaProxy, ViaRealIp}

\* The bodies of creation requests: questions and options at, around and
\* beyond each limit, with and without characters to escape; option lists of
\* 1, 2, 10 and 11 equal options and of a good option before any other;
\* options that are no array.
CreateBodies ==
    LET questions == {[type |-> "undefined", pad |-> 0, plain |-> 0, lt |-> 0],
                      [type |-> "string", pad |-> 0, plain |-> 0, lt |-> 0],
                      [type |-> "string", pad |-> 2, plain |-> 0, lt |-> 0],
                      [type |-> "string", pad |-> 0, plain |-> 1, lt |-> 0],
                      [type |-> "string", pad |-> 0, plain |-> 500, lt |-> 0],
                      [type |-> "string", pad |-> 0, plain |-> 501, lt |-> 0],
                      [type |-> "string", pad |-> 0, plain |-> 0, lt |-> 500]}
        options == {[type |-> "undefined", pad |-> 0, plain |-> 0, lt |-> 0],
                    [type |-> "string", pad |-> 0, plain |-> 0, lt |-> 0],
                    [type |-> "string", pad |-> 1, plain |-> 0, lt |-> 0],
                    [type |-> "string", pad |-> 0, plain |-> 1, lt |-> 0],
                    [type |-> "string", pad |-> 1, plain |-> 199, lt |-> 0],
                    [type |-> "string", pad |-> 0, plain |-> 200, lt |-> 0],
                    [type |-> "string", pad |-> 0, plain |-> 201, lt |-> 0],
                    [type |-> "string", pad |-> 0, plain |-> 150, lt |-> 50]}
        lists == {[isArray |-> FALSE, items |-> <<>>]}
                    \cup {[isArray |-> TRUE, items |-> [i \in 1..n |-> t]] :
                              n \in {MIN_OPTIONS - 1, MIN_OPTIONS, MAX_OPTIONS,
                                     MAX_OPTIONS + 1},
                              t \in options}
                    \cup {[isArray |-> TRUE,
                            items |-> <<[type |-> "string", pad |-> 0, plain |-> 1,
                                         lt |-> 0], u>>] : u \in options}
    IN {b : b \in [question : questions, options : lists]}

\* Every combination of the three inputs of getClientIp: X-Forwarded-For
\* absent or of up to MaxHops entries, an entry being empty or an address
\* with or without blanks around it; X-Real-IP and the peer address present
\* or absent.
AddressInputs ==
    LET hops == {Hop(FALSE, "")}
                   \cup {Hop(padded, text) : padded \in BOOLEAN,
                                             text \in {"10.0.0.1", "10.0.0.3"}}
        forwarded == UNION {[1..n -> hops] : n \in 0..MaxHops}
    IN {h : h \in [xff : forwarded, xRealIp : {"", "10.0.0.2"},
                   remoteAddress : {"", "10.0.0.9"}]}

\* Requests that pass the shape checks: a non-empty fingerprint and option
\* index 0 or 0.5 from either address with either fingerprint, or option
\* index 5.
WellFormedRequests ==
    [pollId : PollIds,
     optionIndex : {JSNumber(0, FALSE), JSNumber(0, TRUE)},
     fingerprint : FingerprintInputs,
     headers : HeaderInputs]
    \cup
    [pollId : PollIds, optionIndex : {JSNumber(5, FALSE)},
     fingerprint : {JSString("f1")}, headers : {ViaProxy}]

\* One request per way of being malformed.
MalformedRequests ==
    LET ok == [pollId |-> "pollAAAA", optionIndex |-> JSNumber(0, FALSE),
               fingerprint |-> JSString("f1"), headers |-> ViaProxy]
    IN { [ok EXCEPT !.pollId = ""],
         [ok EXCEPT !.pollId = BadPollId],
         [ok EXCEPT !.optionIndex = JSString("1")],
         [ok EXCEPT !.optionIndex = JSUndefined],
         [ok EXCEPT !.optionIndex = JSNumber(-1, FALSE)],
         [ok EXCEPT !.fingerprint = JSString("")],
         [ok EXCEPT !.fingerprint = JSUndefined],
         [ok EXCEPT !.fingerprint = JSNumber(7, FALSE)] }

VoteRequests == {r : r \in WellFormedRequests \cup MalformedRequests}

\* The live scenario: viewers of one poll and the votes cast on it.
Sockets == 1..NumSockets
NoClient == 0
LivePollIds == {"pollAAAA"}
\* what a socket event may carry as its poll id: a poll id or nothing
LiveEventIds == {"pollAAAA", ""}
\* who sends a vote: the page of a socket, or a caller that is no page
LiveClients == {c : c \in Sockets \cup {NoClient}}
LiveRequests ==
    {r : r \in [pollId : LivePollIds,
                optionIndex : {JSNumber(0, FALSE), JSNumber(1, FALSE)},
                fingerprint : FingerprintInputs,
                headers : HeaderInputs]}
\* a vote for an option the poll does not have, and one with no fingerprint
LiveBadRequests ==
    {[pollId |-> "pollAAAA", optionIndex |-> JSNumber(5, FALSE),
      fingerprint |-> JSString("f1"), headers |-> ViaProxy],
     [pollId |-> "pollAAAA", optionIndex |-> JSNumber(0, FALSE),
      fingerprint |-> JSString(""), headers |-> ViaProxy]}
LiveVoteRequests == {r : r \in LiveRequests \cup LiveBadRequests}

\* The batch scenario: identity i of a batch has its own address and its own
\* fingerprint and votes for option i mod 2 of the one poll.
BatchPollId == "pollAAAA"
BatchAddress(i) == "10.1.0." \o ToString(i)
BatchRequest(i, sharedPeer) ==
    [pollId |-> BatchPollId, optionIndex |-> JSNumber(i % 2, FALSE),
     fingerprint |-> JSString("fp" \o ToString(i)),
     headers |-> IF sharedPeer THEN ProxiedFrom(BatchAddress(i))
                 ELSE DirectFrom(BatchAddress(i))]
\* the first identity of the batch voting on another poll
ElsewherePollId == "pollBBBB"
ElsewhereRequest(sharedPeer) ==
    [BatchRequest(1, sharedPeer) EXCEPT !.pollId = ElsewherePollId]
NoBatch == [size |-> 0, sharedPeer |-> FALSE, left |-> {}, accepted |-> 0,
            faulted |-> FALSE, passed |-> 0, elsewhere |-> 0]

StorageCalls == {"getPoll", "hasVotedByIP", "hasVotedByFingerprint",
                 "getRecentVoteCount", "addVote", "getPollAfter"}
FaultSets == {F : F \in {G \in SUBSET StorageCalls : Cardinality(G) <= MaxFaults}}

(* ------------------------------- state -------------------------------- *)
VARIABLES
    polls,      \* table polls: id -> row
    votes,      \* table votes, in rowid order
    now,        \* Date.now()
    lastReq,    \* the vote request being answered
    lastRes,    \* the response on its way to the caller
    connected,  \* socket -> the Socket.io connection is up
    rooms,      \* socket -> the polls p whose room poll-p it is in
    notify,     \* socket -> polls whose vote-submitted its page still has to emit
    lastEvent,  \* the socket event just handled and the events emitted for it
    broadcasts, \* poll -> number of poll-updated broadcasts so far
    owed,       \* socket -> polls that took a vote while it was in the room
                \*           and have not been broadcast to it since
    voteHits,   \* voteLimiter's store: req.ip -> requests counted in the window
    batch,      \* the batch of concurrent requests under way, if any
    answered,   \* socket -> the success responses its page got and has not
                \*           yet followed with vote-submitted
    gone,       \* socket -> the polls it left by leave-poll and has not joined
                \*           since, or was in when its connection went down
    pollData,   \* socket -> poll.js pollData of its page: null until loadPoll,
                \*           then the results the page shows
    formOptions \* create.js options: the option list of the creation form

vars == <<polls, votes, now, lastReq, lastRes, connected, rooms, notify,
          lastEvent, broadcasts, owed, voteHits, batch, answered, gone,
          pollData, formOptions>>
httpVars == <<lastReq, lastRes>>
socketVars == <<connected, rooms, notify, lastEvent, broadcasts, owed, answered,
                gone, pollData>>

(* ----------------------------- database.js ---------------------------- *)
\* statements.getVotesByPoll
VotesOf(vs, pollId) == SelectSeq(vs, LAMBDA v : v.poll_id = pollId)

\* results[index] = count on a JS array: an element when index is an array
\* index, otherwise an own property that is no element of the array.
ArrayAssign(arr, index, value) ==
    IF IsInteger(index) /\ index.int >= 0 /\ index.int < Len(arr)
    THEN [arr EXCEPT ![index.int + 1] = value]
    ELSE arr

\* every group given the count of all the poll's votes
RECURSIVE ForEachGroup_TotalCount(_, _, _)
ForEachGroup_TotalCount(groups, pollVotes, results) ==
    IF groups = {} THEN results
    ELSE LET g == CHOOSE x \in groups : TRUE
             next == IF NumLess(g, Len(results))
                     THEN ArrayAssign(results, g, Len(pollVotes))
                     ELSE results
         IN ForEachGroup_TotalCount(groups \ {g}, pollVotes, next)

RECURSIVE ForEachGroup(_, _, _)
ForEachGroup(groups, pollVotes, results) ==
    IF groups = {} THEN results
    ELSE LET g == CHOOSE x \in groups : TRUE
             count == Len(SelectSeq(pollVotes, LAMBDA v : v.option_index = g))
             next == IF NumLess(g, Len(results))
                     THEN ArrayAssign(results, g, count)
                     ELSE results
         IN ForEachGroup(groups \ {g}, pollVotes, next)

\* dbHelpers.getPoll: the row with options and the computed results
getPoll(ps, vs, pollId) ==
    LET row == ps[pollId]
        pollVotes == VotesOf(vs, pollId)
        groups == {pollVotes[i].option_index : i \in 1..Len(pollVotes)}
        zeros == [i \in 1..Len(row.options) |-> 0]
    IN [id |-> pollId, question |-> row.question, options |-> row.options,
        created_at |-> row.created_at, vote_count |-> row.vote_count,
        results |-> ForEachGroup(groups, pollVotes, zeros)]

\* checkVoteByIP without its poll_id condition
hasVotedByIP_AnyPoll(vs, pollId, ipAddress, throws) ==
    IF throws THEN FALSE
    ELSE Len(SelectSeq(vs, LAMBDA v : v.ip_address = ipAddress)) > 0

\* a lookup by address that never finds a vote
hasVotedByIP_Never(vs, pollId, ipAddress, throws) == FALSE

\* statements.checkVoteByIP / dbHelpers.hasVotedByIP (false when the
\* statement throws)
hasVotedByIP(vs, pollId, ipAddress, throws) ==
    IF throws THEN FALSE
    ELSE Len(SelectSeq(vs, LAMBDA v : v.poll_id = pollId /\ v.ip_address = ipAddress)) > 0

\* a lookup by fingerprint that reports a vote when the statement throws
hasVotedByFingerprint_FailClosed(vs, pollId, fingerprint, throws) ==
    throws \/ Len(SelectSeq(vs, LAMBDA v : v.poll_id = pollId
                                           /\ v.fingerprint = fingerprint)) > 0

\* statements.checkVoteByFingerprint / dbHelpers.hasVotedByFingerprint
hasVotedByFingerprint(vs, pollId, fingerprint, throws) ==
    IF throws THEN FALSE
    ELSE Len(SelectSeq(vs, LAMBDA v : v.poll_id = pollId /\ v.fingerprint = fingerprint)) > 0

\* the recent votes of the poll counted whatever their address
getRecentVoteCount_AnyAddress(vs, pollId, ipAddress, timeWindowMs, clock, throws) ==
    IF throws THEN 0
    ELSE LET cutoffTime == clock - timeWindowMs
         IN Len(SelectSeq(vs, LAMBDA v : v.poll_id = pollId
                                         /\ v.voted_at > cutoffTime))

\* statements.getRecentVotesByIP / dbHelpers.getRecentVoteCount
getRecentVoteCount(vs, pollId, ipAddress, timeWindowMs, clock, throws) ==
    IF throws THEN 0
    ELSE LET cutoffTime == clock - timeWindowMs
         IN Len(SelectSeq(vs, LAMBDA v : v.poll_id = pollId
                                         /\ v.ip_address = ipAddress
                                         /\ v.voted_at > cutoffTime))

\* an addVote outside any transaction: the row stays when the UPDATE throws
addVote_NoRollback(ps, vs, pollId, optionIndex, ipAddress, fingerprint, clock, throws) ==
    [ok |-> ~throws,
     polls |-> IF throws THEN ps ELSE [ps EXCEPT ![pollId].vote_count = @ + 1],
     votes |-> Append(vs, [poll_id |-> pollId, option_index |-> optionIndex,
                           ip_address |-> ipAddress,
                           fingerprint |-> fingerprint,
                           voted_at |-> clock])]

\* an addVote whose UPDATE also stamps the poll row with the time of the vote
addVote_Restamp(ps, vs, pollId, optionIndex, ipAddress, fingerprint, clock, throws) ==
    IF throws
    THEN [ok |-> FALSE, polls |-> ps, votes |-> vs]
    ELSE [ok |-> TRUE,
          polls |-> [ps EXCEPT ![pollId].vote_count = @ + 1,
                               ![pollId].created_at = clock],
          votes |-> Append(vs, [poll_id |-> pollId, option_index |-> optionIndex,
                                ip_address |-> ipAddress,
                                fingerprint |-> fingerprint,
                                voted_at |-> clock])]

\* an addVote that keeps only the latest vote of the poll
addVote_KeepLatest(ps, vs, pollId, optionIndex, ipAddress, fingerprint, clock, throws) ==
    IF throws
    THEN [ok |-> FALSE, polls |-> ps, votes |-> vs]
    ELSE [ok |-> TRUE,
          polls |-> [ps EXCEPT ![pollId].vote_count = @ + 1],
          votes |-> Append(SelectSeq(vs, LAMBDA v : v.poll_id # pollId),
                           [poll_id |-> pollId, option_index |-> optionIndex,
                            ip_address |-> ipAddress,
                            fingerprint |-> fingerprint,
                            voted_at |-> clock])]

\* dbHelpers.addVote: one transaction inserting the row and incrementing
\* vote_count; a throw rolls both back.
addVote(ps, vs, pollId, optionIndex, ipAddress, fingerprint, clock, throws) ==
    IF throws
    THEN [ok |-> FALSE, polls |-> ps, votes |-> vs]
    ELSE [ok |-> TRUE,
          polls |-> [ps EXCEPT ![pollId].vote_count = @ + 1],
          votes |-> Append(vs, [poll_id |-> pollId, option_index |-> optionIndex,
                                ip_address |-> ipAddress,
                                fingerprint |-> fingerprint,
                                voted_at |-> clock])]

\* dbHelpers.createPoll
createPoll(ps, id, question, options, clock) ==
    ps @@ (id :> [question |-> question, options |-> options,
                  created_at |-> clock, vote_count |-> 0])

(* ----------------------------- antiAbuse.js --------------------------- *)
\* A string of a creation request by what the checks look at: the blanks
\* around it, the characters that sanitizeInput escapes ('<' stands for
\* them) and the other characters. A value that is no string has its type.
Text(pad, plain, lt) == [type |-> "string", pad |-> pad, plain |-> plain, lt |-> lt]
Length(t) == t.pad + t.plain + t.lt
TrimLength(t) == t.plain + t.lt

\* sanitizeInput: escape, trim, substring(0, 500)
sanitizeInput(t) ==
    IF t.type # "string" THEN Text(0, 0, 0)
    ELSE LET escaped == t.plain + ESCAPED_LENGTH * t.lt
         IN Text(0, IF escaped < SANITIZE_LIMIT THEN escaped ELSE SANITIZE_LIMIT, 0)

\* validatePollData; the two errors about an option differ in their text
\* and name the option, the first one in the list being reported
validatePollData(question, options) ==
    IF question.type # "string" \/ Length(question) = 0 \/ TrimLength(question) = 0
    THEN [valid |-> FALSE, error |-> "Question is required"]
    ELSE IF Length(question) > MAX_QUESTION_LENGTH
    THEN [valid |-> FALSE, error |-> "Question is too long (max 500 characters)"]
    ELSE IF ~options.isArray
    THEN [valid |-> FALSE, error |-> "Options must be an array"]
    ELSE IF Len(options.items) < MIN_OPTIONS
    THEN [valid |-> FALSE, error |-> "At least 2 options are required"]
    ELSE IF Len(options.items) > MAX_OPTIONS
    THEN [valid |-> FALSE, error |-> "Maximum 10 options allowed"]
    ELSE IF \E i \in 1..Len(options.items) :
                \/ options.items[i].type # "string"
                \/ TrimLength(options.items[i]) = 0
                \/ Length(options.items[i]) > MAX_OPTION_LENGTH
    THEN [valid |-> FALSE, error |-> "Option is invalid or too long"]
    ELSE [valid |-> TRUE, error |-> "",
          sanitized |-> [question |-> sanitizeInput(question),
                         options |-> [i \in 1..Len(options.items) |->
                                         sanitizeInput(options.items[i])]]]

Trim(hop) == hop.text

\* req.headers['x-forwarded-for'] is modelled by its list of hops, the
\* entries between its commas. The empty list is the absent header, and the
\* list of one empty entry with no blanks is the empty string: both falsy.
Forwarded(headers) ==
    headers.xff # <<>> /\ headers.xff # <<Hop(FALSE, "")>>

getClientIp(headers) ==
    IF Forwarded(headers)
    THEN Trim(headers.xff[1])
    ELSE IF headers.xRealIp # "" THEN headers.xRealIp
    ELSE IF headers.remoteAddress # "" THEN headers.remoteAddress
    ELSE "unknown"

\* validateVoteData without its fingerprint test
validateVoteData_AnyFingerprint(pollId, optionIndex, fingerprint) ==
    IF pollId = "" THEN [valid |-> FALSE, error |-> "Invalid poll ID"]
    ELSE IF optionIndex.type # "number" \/ NumLess(optionIndex, 0)
    THEN [valid |-> FALSE, error |-> "Invalid option index"]
    ELSE [valid |-> TRUE, error |-> ""]

validateVoteData(pollId, optionIndex, fingerprint) ==
    IF pollId = "" THEN [valid |-> FALSE, error |-> "Invalid poll ID"]
    ELSE IF optionIndex.type # "number" \/ NumLess(optionIndex, 0)
    THEN [valid |-> FALSE, error |-> "Invalid option index"]
    ELSE IF ~Truthy(fingerprint)
    THEN [valid |-> FALSE, error |-> "Invalid fingerprint"]
    ELSE [valid |-> TRUE, error |-> ""]

(* --------------------------- validation.js ---------------------------- *)
isValidPollId(pollId) == pollId \in PollIds

validatePollId(pollId) ==
    IF pollId = "" THEN [ok |-> FALSE, error |-> "Poll ID is required"]
    ELSE IF ~isValidPollId(pollId)
    THEN [ok |-> FALSE, error |-> "Invalid poll ID format"]
    ELSE [ok |-> TRUE, error |-> ""]

(* ---------------------------- rateLimit.js --------------------------- *)
\* The store of an express-rate-limit limiter holds the keys with a count
\* above zero.
HitsOf(hits, key) == IF key \in DOMAIN hits THEN hits[key] ELSE 0
SetHits(hits, key, n) ==
    IF n = 0 THEN [k \in DOMAIN hits \ {key} |-> hits[k]]
    ELSE (key :> n) @@ hits

\* voteLimiter: the request is counted under req.ip when it arrives and is
\* refused when that makes more than max in the window.
voteLimiter(hits, key) ==
    LET totalHits == HitsOf(hits, key) + 1
    IN [blocked |-> totalHits > VOTE_LIMIT_MAX,
        hits |-> SetHits(hits, key, totalHits)]

\* every request staying in the count whatever its response
onFinish_CountAll(hits, key, status) == hits

\* skipFailedRequests: a response with a status of 400 or above takes the
\* request out of the count again.
onFinish(hits, key, status) ==
    IF status >= 400 THEN SetHits(hits, key, HitsOf(hits, key) - 1) ELSE hits

(* ----------------------- voteRoutes: POST /api/votes ------------------ *)
NoBody == [question |-> [type |-> "undefined", pad |-> 0, plain |-> 0, lt |-> 0],
           options |-> [isArray |-> FALSE, items |-> <<>>]]
NoReq == [pollId |-> "", optionIndex |-> JSUndefined,
          fingerprint |-> JSUndefined, headers |-> DirectFrom(""),
          ipAddress |-> "", client |-> NoClient, online |-> FALSE,
          route |-> "", body |-> NoBody]
NoRes == [status |-> 0, error |-> "", results |-> <<>>, totalVotes |-> 0,
          evaluated |-> <<>>, sent |-> 0, threw |-> {}, swallowed |-> {}]

\* The handler's progress through one request: the response once sent
\* (status # 0), the number of responses sent, the admission checks
\* evaluated so far, the storage calls whose exception reached the handler,
\* and the tables.
Start(ps, vs) ==
    [status |-> 0, error |-> "", results |-> <<>>, totalVotes |-> 0,
     evaluated |-> <<>>, sent |-> 0, threw |-> {}, calls |-> {},
     polls |-> ps, votes |-> vs]

\* res.status(status).json({ success: false, error })
Send(h, status, error) ==
    [h EXCEPT !.status = status, !.error = error, !.sent = @ + 1]
\* lines 222-228: the catch block answers 500
Caught(h, call) ==
    Send([h EXCEPT !.threw = @ \cup {call}], 500, "Failed to submit vote")
Called(h, call) == [h EXCEPT !.calls = @ \cup {call}]
Checked(h, check, failed) ==
    [h EXCEPT !.evaluated = Append(@, [check |-> check, failed |-> failed])]

\* middleware requireBody, validatePollId
MiddlewareStep(h, req) ==
    LET v == validatePollId(req.pollId)
    IN IF v.ok THEN h ELSE Send(h, 400, v.error)

\* lines 143-150
ValidateStep(h, req) ==
    IF h.status # 0 THEN h
    ELSE LET v == validateVoteData(req.pollId, req.optionIndex, req.fingerprint)
             h1 == IF req.pollId # ""
                   THEN Checked(h, "option-type",
                                req.optionIndex.type # "number"
                                \/ NumLess(req.optionIndex, 0))
                   ELSE h
         IN IF v.valid THEN h1 ELSE Send(h1, 400, v.error)

\* lines 155-162
GetPollStep(h, req, F) ==
    IF h.status # 0 THEN h
    ELSE LET h1 == Called(h, "getPoll")
         IN IF "getPoll" \in F THEN Caught(h1, "getPoll")
            ELSE IF req.pollId \notin DOMAIN h.polls
            THEN Send(h1, 404, "Poll not found")
            ELSE h1

\* lines 164-170
OptionRangeStep(h, req) ==
    IF h.status # 0 THEN h
    ELSE LET poll == getPoll(h.polls, h.votes, req.pollId)
             failed == NumGeq(req.optionIndex, Len(poll.options))
         IN IF failed
            THEN Send(Checked(h, "option-range", TRUE), 400, "Invalid option index")
            ELSE Checked(h, "option-range", FALSE)

\* lines 172-179
IpStep(h, req, F) ==
    IF h.status # 0 THEN h
    ELSE LET hasVotedIP == hasVotedByIP(h.votes, req.pollId,
                                        getClientIp(req.headers),
                                        "hasVotedByIP" \in F)
             h1 == Called(h, "hasVotedByIP")
         IN IF hasVotedIP
            THEN Send(Checked(h1, "duplicate-address", TRUE), 403,
                      "You have already voted in this poll")
            ELSE Checked(h1, "duplicate-address", FALSE)

\* lines 181-188
FingerprintStep(h, req, F) ==
    IF h.status # 0 THEN h
    ELSE LET hasVotedFingerprint ==
                 hasVotedByFingerprint(h.votes, req.pollId, req.fingerprint.str,
                                       "hasVotedByFingerprint" \in F)
             h1 == Called(h, "hasVotedByFingerprint")
         IN IF hasVotedFingerprint
            THEN Send(Checked(h1, "duplicate-fingerprint", TRUE), 403,
                      "You have already voted in this poll")
            ELSE Checked(h1, "duplicate-fingerprint", FALSE)

\* the vote recorded before the rate check instead of after it
RateStep_AddVoteFirst(h, req, clock, F) ==
    IF h.status # 0 THEN h
    ELSE LET r == addVote(h.polls, h.votes, req.pollId, req.optionIndex,
                          getClientIp(req.headers), req.fingerprint.str, clock,
                          FALSE)
             recentVotes ==
                 getRecentVoteCount(r.votes, req.pollId, getClientIp(req.headers),
                                    VOTE_RATE_WINDOW_MS, clock,
                                    "getRecentVoteCount" \in F)
             h1 == Called([h EXCEPT !.polls = r.polls, !.votes = r.votes],
                          "getRecentVoteCount")
         IN IF recentVotes >= VOTES_PER_IP_PER_POLL
            THEN Send(Checked(h1, "velocity", TRUE), 429,
                      "Too many votes. Please wait before voting again.")
            ELSE Checked(h1, "velocity", FALSE)

\* lines 190-202
RateStep(h, req, clock, F) ==
    IF h.status # 0 THEN h
    ELSE LET recentVotes ==
                 getRecentVoteCount(h.votes, req.pollId, getClientIp(req.headers),
                                    VOTE_RATE_WINDOW_MS, clock,
                                    "getRecentVoteCount" \in F)
             h1 == Called(h, "getRecentVoteCount")
         IN IF recentVotes >= VOTES_PER_IP_PER_POLL
            THEN Send(Checked(h1, "velocity", TRUE), 429,
                      "Too many votes. Please wait before voting again.")
            ELSE Checked(h1, "velocity", FALSE)

\* lines 204-210
AddVoteStep(h, req, clock, F) ==
    IF h.status # 0 THEN h
    ELSE LET r == addVote(h.polls, h.votes, req.pollId, req.optionIndex,
                          getClientIp(req.headers), req.fingerprint.str, clock,
                          "addVote" \in F)
             \* the tables as addVote leaves them, thrown or not
             h1 == [Called(h, "addVote") EXCEPT !.polls = r.polls,
                                                !.votes = r.votes]
         IN IF r.ok THEN h1 ELSE Caught(h1, "addVote")

\* the exception of the tally read leaving the handler uncaught
RespondStep_Uncaught(h, req, F) ==
    IF h.status # 0 THEN h
    ELSE LET updatedPoll == getPoll(h.polls, h.votes, req.pollId)
             h1 == Called(h, "getPollAfter")
         IN IF "getPollAfter" \in F THEN [h1 EXCEPT !.threw = @ \cup {"getPollAfter"}]
            ELSE [h1 EXCEPT !.status = 200, !.error = "", !.sent = @ + 1,
                            !.results = updatedPoll.results,
                            !.totalVotes = SumSeq(updatedPoll.results)]

\* lines 212-220
RespondStep(h, req, F) ==
    IF h.status # 0 THEN h
    ELSE LET updatedPoll == getPoll(h.polls, h.votes, req.pollId)
             h1 == Called(h, "getPollAfter")
         IN IF "getPollAfter" \in F THEN Caught(h1, "getPollAfter")
            ELSE [h1 EXCEPT !.status = 200, !.error = "", !.sent = @ + 1,
                            !.results = updatedPoll.results,
                            !.totalVotes = SumSeq(updatedPoll.results)]

\* the fingerprint check placed before the address check
voteHandler_FingerprintFirst(ps, vs, clock, req, F) ==
    RespondStep(
      AddVoteStep(
        RateStep(
          IpStep(
            FingerprintStep(
              OptionRangeStep(
                GetPollStep(
                  ValidateStep(
                    MiddlewareStep(Start(ps, vs), req), req), req, F), req),
              req, F), req, F), req, clock, F), req, clock, F), req, F)

\* the route: middleware, then the handler body top to bottom
voteHandler(ps, vs, clock, req, F) ==
    RespondStep(
      AddVoteStep(
        RateStep(
          FingerprintStep(
            IpStep(
              OptionRangeStep(
                GetPollStep(
                  ValidateStep(
                    MiddlewareStep(Start(ps, vs), req), req), req, F), req),
              req, F), req, F), req, clock, F), req, clock, F), req, F)

\* router.post('/', voteLimiter, requireBody, validatePollId, handler): the
\* handler's outcome and the limiter's store once the response is sent.
\* 'trust proxy' is not set, so req.ip is the address of the peer.
voteRoute(hits, ps, vs, clock, req, F) ==
    LET key == req.headers.remoteAddress
        lim == voteLimiter(hits, key)
        h == IF lim.blocked
             THEN Send(Start(ps, vs), 429, "Too many vote attempts. Please slow down.")
             ELSE voteHandler(ps, vs, clock, req, F)
    IN [h |-> h, hits |-> onFinish(lim.hits, key, h.status)]

(* ------------------------ index.js: Socket.io ------------------------- *)
NoEvent == [kind |-> "none", socket |-> 0, pollId |-> "", threw |-> FALSE,
            emitted |-> {}]

Message(to, event, poll) ==
    [to |-> to, event |-> event, results |-> poll.results,
     totalVotes |-> SumSeq(poll.results)]

(* ----------------------------- create.js ----------------------------- *)
\* removeOption splicing whatever the length of the list
removeOption_Unguarded(options, index) ==
    [i \in 1..(Len(options) - 1) |->
        IF i <= index THEN options[i] ELSE options[i + 1]]

\* addOption: options.push('') unless there are 10 options
addOption(options) ==
    IF Len(options) >= FORM_MAX_OPTIONS THEN options ELSE Append(options, "")

\* updateOption: options[index] = value; index counts from 0
updateOption(options, index, value) == [options EXCEPT ![index + 1] = value]

\* removeOption: options.splice(index, 1) unless there are 2 options or
\* fewer; index counts from 0
removeOption(options, index) ==
    IF Len(options) <= FORM_MIN_OPTIONS THEN options
    ELSE [i \in 1..(Len(options) - 1) |->
             IF i <= index THEN options[i] ELSE options[i + 1]]

(* ------------------------------ poll.js ------------------------------ *)
\* pollData of a page: null before loadPoll has succeeded, then the results
\* it holds; missed says that a broadcast of its poll went out while its
\* connection was down and that it has taken no results since. With it go
\* hasVoted of the page and the item voted_<pollId> of its localStorage.
NoPage == [loaded |-> FALSE, results |-> <<>>, missed |-> FALSE,
           hasVoted |-> FALSE, flag |-> FALSE]

\* markAsVoted: localStorage.setItem, then hasVoted = true; when setItem
\* throws the catch block logs and hasVoted is left as it is
markAsVoted(page, throws) ==
    IF throws \/ ~page.loaded THEN page
    ELSE [page EXCEPT !.flag = TRUE, !.hasVoted = TRUE]

\* updateResults: pollData.results = data.results unless pollData is null
updateResults(page, results) ==
    IF ~page.loaded THEN page
    ELSE [page EXCEPT !.results = results, !.missed = FALSE]

\* socketClient.onPollUpdate(updateResults) is the one listener the page
\* registers: the poll-updated events among those emitted reach
\* updateResults, and a poll-data event has no listener.
Listened(pages, emitted) ==
    [s \in Sockets |->
        IF \E m \in emitted : m.to = s /\ m.event = "poll-updated"
        THEN updateResults(pages[s],
                           (CHOOSE m \in emitted :
                                m.to = s /\ m.event = "poll-updated").results)
        ELSE pages[s]]

\* io.to(`poll-${pollId}`): the sockets in the room
RoomMembers(rms, pollId) == {s \in Sockets : pollId \in rms[s]}

\* a join-poll that takes the socket out of a room it is already in
onJoinPoll_Toggle(ps, vs, rms, socket, pollId, throws) ==
    [rooms |-> [rms EXCEPT ![socket] =
                   IF pollId \in @ THEN @ \ {pollId} ELSE @ \cup {pollId}],
     emitted |-> {}]

\* socket.on('join-poll'): the rooms of the socket afterwards and the events
\* emitted; getPoll throwing is caught and logged.
onJoinPoll(ps, vs, rms, socket, pollId, throws) ==
    IF pollId = "" THEN [rooms |-> rms, emitted |-> {}]
    ELSE [rooms |-> [rms EXCEPT ![socket] = @ \cup {pollId}],
          emitted |-> IF ~throws /\ pollId \in DOMAIN ps
                      THEN {Message(socket, "poll-data", getPoll(ps, vs, pollId))}
                      ELSE {}]

\* a broadcast of the tally the poll had when it was created
onVoteSubmitted_Stale(ps, vs, rms, pollId, throws) ==
    IF pollId = "" \/ throws \/ pollId \notin DOMAIN ps THEN {}
    ELSE {Message(s, "poll-updated", getPoll(ps, <<>>, pollId)) :
              s \in RoomMembers(rms, pollId)}

\* io.emit in place of io.to(room).emit
onVoteSubmitted_ToAll(ps, vs, rms, pollId, throws) ==
    IF pollId = "" \/ throws \/ pollId \notin DOMAIN ps THEN {}
    ELSE {Message(s, "poll-updated", getPoll(ps, vs, pollId)) : s \in Sockets}

\* socket.on('vote-submitted'): the events emitted
onVoteSubmitted(ps, vs, rms, pollId, throws) ==
    IF pollId = "" \/ throws \/ pollId \notin DOMAIN ps THEN {}
    ELSE {Message(s, "poll-updated", getPoll(ps, vs, pollId)) :
              s \in RoomMembers(rms, pollId)}

\* a leave-poll that leaves nothing
onLeavePoll_Stay(rms, socket, pollId) == rms

\* socket.on('leave-poll')
onLeavePoll(rms, socket, pollId) ==
    IF pollId = "" THEN rms ELSE [rms EXCEPT ![socket] = @ \ {pollId}]

(* ------------------------------ actions ------------------------------- *)
Init ==
    /\ polls = [p \in {} |-> 0]
    /\ votes = <<>>
    /\ now = 0
    /\ lastReq = NoReq
    /\ lastRes = NoRes
    /\ connected = [s \in Sockets |-> FALSE]
    /\ rooms = [s \in Sockets |-> {}]
    /\ notify = [s \in Sockets |-> {}]
    /\ lastEvent = NoEvent
    /\ broadcasts = [p \in PollIds |-> 0]
    /\ owed = [s \in Sockets |-> {}]
    /\ voteHits = [k \in {} |-> 0]
    /\ batch = NoBatch
    /\ answered = [s \in Sockets |-> {}]
    /\ gone = [s \in Sockets |-> {}]
    /\ pollData = [s \in Sockets |-> NoPage]
    /\ formOptions = <<"", "">>

\* A response or emitted events on their way to the clients. They influence
\* nothing but their receivers, so the other steps are taken with none
\* under way.
Idle == lastRes.status = 0 /\ lastEvent.kind = "none"

\* POST /api/polls with a valid body; generatePollId draws the id.
CreatePollIn(ids) ==
    \E id \in ids, options \in OptionLists :
        /\ Idle
        /\ id \notin DOMAIN polls
        /\ polls' = createPoll(polls, id, "Q", options, now)
        /\ UNCHANGED <<votes, now, httpVars, socketVars, voteHits, batch, formOptions>>

\* router.post('/', createPollLimiter, requireBody, handler) of pollRoutes:
\* the response and the table polls afterwards. The INSERT of a row whose id
\* is taken throws, and the handler answers 500.
createRoute(ps, id, body, clock) ==
    LET validation == validatePollData(body.question, body.options)
    IN IF ~validation.valid
       THEN [status |-> 400, error |-> validation.error, polls |-> ps]
       ELSE IF id \in DOMAIN ps
       THEN [status |-> 500, error |-> "Failed to create poll", polls |-> ps]
       ELSE [status |-> 201, error |-> "",
             polls |-> createPoll(ps, id, validation.sanitized.question,
                                  validation.sanitized.options, clock)]

\* POST /api/polls with any body
CreatePollFrom(ids, bodies) ==
    \E id \in ids, body \in bodies :
        \E r \in {createRoute(polls, id, body, now)} :
            /\ Idle
            /\ polls' = r.polls
            /\ lastReq' = [NoReq EXCEPT !.pollId = id, !.route = "polls",
                                        !.body = body]
            /\ lastRes' = [NoRes EXCEPT !.status = r.status, !.error = r.error,
                                        !.sent = 1]
            /\ UNCHANGED <<votes, now, socketVars, voteHits, batch, formOptions>>

\* POST /api/votes, sent by the page of a client or by any other HTTP client
VoteWith(req, F, client, maxVotes) ==
    \* the route runs once for the request
    \E r \in {voteRoute(voteHits, polls, votes, now, req, F)} :
    LET h == r.h
    IN \* only a call that is made can throw
       /\ F \subseteq h.calls
       /\ Len(h.votes) <= maxVotes
       /\ polls' = h.polls
       /\ votes' = h.votes
       /\ voteHits' = r.hits
       /\ lastReq' = [pollId |-> req.pollId, optionIndex |-> req.optionIndex,
                      fingerprint |-> req.fingerprint,
                      headers |-> req.headers,
                      ipAddress |-> getClientIp(req.headers),
                      client |-> client,
                      online |-> client # NoClient /\ connected[client],
                      route |-> "votes", body |-> NoBody]
       /\ lastRes' = [status |-> h.status, error |-> h.error,
                      results |-> h.results, totalVotes |-> h.totalVotes,
                      evaluated |-> h.evaluated, sent |-> h.sent,
                      threw |-> h.threw,
                      \* the calls that threw and whose helper caught it
                      swallowed |-> F \ h.threw]
       /\ owed' = IF Len(h.votes) > Len(votes)
                  THEN [s \in Sockets |->
                          IF req.pollId \in rooms[s]
                          THEN owed[s] \cup {req.pollId} ELSE owed[s]]
                  ELSE owed
       /\ UNCHANGED <<now, connected, rooms, notify, lastEvent, broadcasts,
                      answered, gone, pollData, formOptions>>

\* the calls the route makes for req when none throws
CallsOf(req) == voteRoute(voteHits, polls, votes, now, req, {}).h.calls

VoteFrom(requests, faultSets, clients) ==
    /\ Idle
    /\ \E req \in requests :
        LET calls == CallsOf(req)
        IN \E F \in {G \in faultSets : G = {} \/ G \cap calls # {}} :
           \E client \in clients :
               VoteWith(req, F, client, MaxVotes)
    /\ UNCHANGED batch

\* 1 when voteLimiter hands the request on to the handler, 0 when it
\* answers the request itself
Passed(req) ==
    IF voteLimiter(voteHits, req.headers.remoteAddress).blocked THEN 0 ELSE 1

\* One request of the batch is served. The requests of a batch arrive in any
\* order; those of a batch of more than MaxShuffled are taken in the order
\* of their identities.
BatchVote ==
    /\ Idle
    /\ ~batch.faulted
    /\ \E i \in batch.left :
        LET calls == CallsOf(BatchRequest(i, batch.sharedPeer))
        IN \E F \in {G \in FaultSets : G = {} \/ G \cap calls # {}} :
            /\ batch.size <= MaxShuffled \/ \A j \in batch.left : i <= j
            /\ VoteWith(BatchRequest(i, batch.sharedPeer), F, NoClient, MaxBatch)
            /\ batch' = [batch EXCEPT
                            !.left = @ \ {i},
                            !.accepted = @ + (IF lastRes'.status = 200 THEN 1 ELSE 0),
                            !.faulted = F # {},
                            !.passed = @ + Passed(BatchRequest(i, batch.sharedPeer))]

\* poll.js handleVoteSubmit: the data of the response, held by the page
\* between updateResults and notifyVote
Keep(held, pollId, res) ==
    {a \in held : a.pollId # pollId}
        \cup {[pollId |-> pollId, results |-> res.results,
                totalVotes |-> res.totalVotes]}

\* the page calling notifyVote whatever the response
Receive_NotifyAlways ==
    /\ lastRes.status # 0
    /\ lastReq' = NoReq
    /\ lastRes' = NoRes
    /\ notify' = IF lastReq.client # NoClient
                 THEN [notify EXCEPT ![lastReq.client] = @ \cup {lastReq.pollId}]
                 ELSE notify
    /\ answered' = IF lastReq.client # NoClient
                   THEN [answered EXCEPT ![lastReq.client] =
                            Keep(@, lastReq.pollId, lastRes)]
                   ELSE answered
    /\ \E throws \in BOOLEAN :
           pollData' = IF lastReq.client # NoClient /\ lastRes.status = 200
                       THEN [pollData EXCEPT ![lastReq.client] =
                                markAsVoted(updateResults(@, lastRes.results),
                                            throws)]
                       ELSE pollData
    /\ UNCHANGED <<polls, votes, now, connected, rooms, lastEvent, broadcasts,
                   owed, voteHits, batch, gone, formOptions>>

\* The caller receives the response; poll.js handleVoteSubmit calls
\* notifyVote after a success response.
Receive ==
    /\ lastRes.status # 0
    /\ lastReq' = NoReq
    /\ lastRes' = NoRes
    /\ notify' = IF lastReq.client # NoClient /\ lastRes.status = 200
                 THEN [notify EXCEPT ![lastReq.client] = @ \cup {lastReq.pollId}]
                 ELSE notify
    /\ answered' = IF lastReq.client # NoClient /\ lastRes.status = 200
                   THEN [answered EXCEPT ![lastReq.client] =
                            Keep(@, lastReq.pollId, lastRes)]
                   ELSE answered
    /\ \E throws \in BOOLEAN :
           pollData' = IF lastReq.client # NoClient /\ lastRes.status = 200
                       THEN [pollData EXCEPT ![lastReq.client] =
                                markAsVoted(updateResults(@, lastRes.results),
                                            throws)]
                       ELSE pollData
    /\ UNCHANGED <<polls, votes, now, connected, rooms, lastEvent, broadcasts,
                   owed, voteHits, batch, gone, formOptions>>

\* Time passes: TickMs, in which the window of voteLimiter ends and its
\* store is emptied.
Tick ==
    /\ Idle
    /\ now < MaxTicks * TickMs
    /\ now' = now + TickMs
    /\ voteHits' = IF TickMs >= VOTE_LIMIT_WINDOW_MS THEN [k \in {} |-> 0]
                   ELSE voteHits
    /\ UNCHANGED <<polls, votes, httpVars, socketVars, batch, formOptions>>

\* io.on('connection')
Connect ==
    \E s \in Sockets :
        /\ Idle
        /\ ~connected[s]
        /\ connected' = [connected EXCEPT ![s] = TRUE]
        /\ gone' = [gone EXCEPT ![s] = {}]
        /\ UNCHANGED <<polls, votes, now, httpVars, rooms, notify, lastEvent,
                       broadcasts, owed, voteHits, batch, answered, pollData,
                       formOptions>>

\* a connection that goes down and stays in its rooms
Disconnect_KeepRooms ==
    \E s \in Sockets :
        /\ Idle
        /\ connected[s]
        /\ connected' = [connected EXCEPT ![s] = FALSE]
        /\ gone' = [gone EXCEPT ![s] =
                        {[pollId |-> p, by |-> "disconnect"] : p \in rooms[s]}]
        /\ UNCHANGED <<polls, votes, now, httpVars, rooms, owed, notify, lastEvent,
                       broadcasts, voteHits, batch, answered, pollData, formOptions>>

\* socket.on('disconnect'): Socket.io has taken the socket out of its rooms
Disconnect ==
    \E s \in Sockets :
        /\ Idle
        /\ connected[s]
        /\ connected' = [connected EXCEPT ![s] = FALSE]
        /\ rooms' = [rooms EXCEPT ![s] = {}]
        /\ owed' = [owed EXCEPT ![s] = {}]
        /\ gone' = [gone EXCEPT ![s] =
                        {[pollId |-> p, by |-> "disconnect"] : p \in rooms[s]}]
        /\ UNCHANGED <<polls, votes, now, httpVars, notify, lastEvent, broadcasts,
                       voteHits, batch, answered, pollData, formOptions>>

\* a connection dropping and undoing the vote whose response is under way
Drop_AbortsVote ==
    \E s \in Sockets :
        /\ lastRes.status # 0
        /\ lastReq.client = s
        /\ connected[s]
        /\ connected' = [connected EXCEPT ![s] = FALSE]
        /\ rooms' = [rooms EXCEPT ![s] = {}]
        /\ owed' = [owed EXCEPT ![s] = {}]
        /\ gone' = [gone EXCEPT ![s] =
                        {[pollId |-> p, by |-> "disconnect"] : p \in rooms[s]}]
        /\ votes' = IF lastRes.status = 200 THEN SubSeq(votes, 1, Len(votes) - 1)
                    ELSE votes
        /\ UNCHANGED <<polls, now, httpVars, notify, lastEvent, broadcasts,
                       voteHits, batch, answered, pollData, formOptions>>

\* The connection of a page goes down while the response to its vote
\* request is on its way: socket.on('disconnect') as in Disconnect. The
\* handler of the request has run to its end by then; no connection event
\* is handled while it runs.
Drop ==
    \E s \in Sockets :
        /\ lastRes.status # 0
        /\ lastReq.client = s
        /\ connected[s]
        /\ connected' = [connected EXCEPT ![s] = FALSE]
        /\ rooms' = [rooms EXCEPT ![s] = {}]
        /\ owed' = [owed EXCEPT ![s] = {}]
        /\ gone' = [gone EXCEPT ![s] =
                        {[pollId |-> p, by |-> "disconnect"] : p \in rooms[s]}]
        /\ UNCHANGED <<polls, votes, now, httpVars, notify, lastEvent, broadcasts,
                       voteHits, batch, answered, pollData, formOptions>>

\* poll.js loadPoll of the page of socket s: GET /api/polls/:pollId answers
\* with the poll and its results, and pollData = data.poll. When the poll
\* is not there the page shows its error card and pollData stays null.
LoadPollIn(ids) ==
    \E s \in Sockets, pollId \in ids :
        /\ Idle
        /\ ~pollData[s].loaded
        /\ pollId \in DOMAIN polls
        /\ pollData' = [pollData EXCEPT ![s] =
                            [loaded |-> TRUE,
                             results |-> getPoll(polls, votes, pollId).results,
                             missed |-> FALSE,
                             \* hasVoted = checkIfVoted()
                             hasVoted |-> pollData[s].flag,
                             flag |-> pollData[s].flag]]
        /\ UNCHANGED <<polls, votes, now, httpVars, connected, rooms, notify,
                       lastEvent, broadcasts, owed, voteHits, batch, answered,
                       gone, formOptions>>

\* a connected client emits join-poll
JoinPollIn(ids) ==
    \E s \in Sockets, pollId \in ids, throws \in BOOLEAN :
        \E r \in {onJoinPoll(polls, votes, rooms, s, pollId, throws)} :
           /\ Idle
           /\ connected[s]
           /\ throws => pollId # ""
           /\ rooms' = r.rooms
           /\ gone' = [gone EXCEPT ![s] = {g \in @ : g.pollId # pollId}]
           /\ lastEvent' = [kind |-> "join-poll", socket |-> s, pollId |-> pollId,
                            threw |-> throws, emitted |-> r.emitted]
           /\ UNCHANGED <<polls, votes, now, httpVars, connected, notify,
                          broadcasts, owed, voteHits, batch, answered, pollData,
                          formOptions>>

\* a connected client emits leave-poll
LeavePollIn(ids) ==
    \E s \in Sockets, pollId \in ids :
        /\ Idle
        /\ connected[s]
        /\ rooms' = onLeavePoll(rooms, s, pollId)
        /\ owed' = [owed EXCEPT ![s] = @ \ {pollId}]
        /\ gone' = IF pollId \notin rooms[s] THEN gone
                   ELSE [gone EXCEPT ![s] =
                            @ \cup {[pollId |-> pollId, by |-> "leave-poll"]}]
        /\ lastEvent' = [kind |-> "leave-poll", socket |-> s, pollId |-> pollId,
                         threw |-> FALSE, emitted |-> {}]
        /\ UNCHANGED <<polls, votes, now, httpVars, connected, notify, broadcasts,
                       voteHits, batch, answered, pollData, formOptions>>

\* the server handles a vote-submitted event from socket s
VoteSubmitted(s, pollId, throws) ==
    LET emitted == onVoteSubmitted(polls, votes, rooms, pollId, throws)
        sent == pollId # "" /\ ~throws /\ pollId \in DOMAIN polls
    IN /\ Idle
       /\ connected[s]
       /\ sent => broadcasts[pollId] < MaxBroadcasts
       /\ lastEvent' = [kind |-> "vote-submitted", socket |-> s, pollId |-> pollId,
                        threw |-> throws, emitted |-> emitted]
       /\ broadcasts' = IF sent THEN [broadcasts EXCEPT ![pollId] = @ + 1]
                        ELSE broadcasts
       /\ owed' = IF sent
                  THEN [t \in Sockets |->
                          IF pollId \in rooms[t] THEN owed[t] \ {pollId} ELSE owed[t]]
                  ELSE owed
       /\ pollData' = IF sent
                      THEN [t \in Sockets |->
                              IF /\ pollData[t].loaded
                                 /\ ~connected[t]
                                 /\ [pollId |-> pollId, by |-> "disconnect"] \in gone[t]
                              THEN [pollData[t] EXCEPT !.missed = TRUE]
                              ELSE pollData[t]]
                      ELSE pollData
       /\ UNCHANGED <<polls, votes, now, httpVars, connected, rooms, voteHits, batch,
                      gone, formOptions>>

\* socketClient.notifyVote of a page whose vote succeeded; Socket.io holds
\* the event back while the socket is down.
NotifyVote ==
    \E s \in Sockets, throws \in BOOLEAN :
        \E pollId \in notify[s] :
            /\ VoteSubmitted(s, pollId, throws)
            /\ notify' = [notify EXCEPT ![s] = @ \ {pollId}]
            /\ answered' = [answered EXCEPT ![s] = {a \in @ : a.pollId # pollId}]

\* any connected client emits vote-submitted of its own accord
EmitVoteSubmittedIn(ids) ==
    \E s \in Sockets, pollId \in ids :
        /\ pollId \notin notify[s]
        /\ VoteSubmitted(s, pollId, FALSE)
        /\ UNCHANGED <<notify, answered, pollData, formOptions>>

\* the emitted events reach the clients
Deliver ==
    /\ lastEvent.kind # "none"
    /\ lastEvent' = NoEvent
    /\ pollData' = Listened(pollData, lastEvent.emitted)
    /\ UNCHANGED <<polls, votes, now, httpVars, connected, rooms, notify,
                   broadcasts, owed, voteHits, batch, answered, gone, formOptions>>

CreatePoll == CreatePollIn(PollIds)
Vote == VoteFrom(VoteRequests, FaultSets, {NoClient})

\* The vote endpoint and the store.
Next == CreatePoll \/ Vote \/ Receive \/ Tick

Spec == Init /\ [][Next]_vars

\* The viewers of one poll: the rooms, the votes of pages and of other HTTP
\* clients, and the broadcasts.
LiveCreatePoll == CreatePollIn(LivePollIds)
LiveVote == VoteFrom(LiveVoteRequests, {{}}, LiveClients)
JoinPoll == JoinPollIn(LiveEventIds)
LeavePoll == LeavePollIn(LiveEventIds)
EmitVoteSubmitted == EmitVoteSubmittedIn(LiveEventIds)

NextLive ==
    \/ LiveCreatePoll \/ LiveVote \/ Receive
    \/ Connect \/ Disconnect \/ JoinPoll \/ LeavePoll
    \/ NotifyVote \/ EmitVoteSubmitted \/ Deliver

SpecLive == Init /\ [][NextLive]_vars

\* The rooms of two polls: sockets join and leave the rooms of both, one
\* vote can be cast on each poll, and any socket emits vote-submitted.
RoomEventIds == {"pollAAAA", "pollBBBB"}
RoomRequests ==
    {[pollId |-> "pollAAAA", optionIndex |-> JSNumber(0, FALSE),
      fingerprint |-> JSString("f1"), headers |-> ViaProxy],
     [pollId |-> "pollBBBB", optionIndex |-> JSNumber(1, FALSE),
      fingerprint |-> JSString("f1"), headers |-> ViaProxy]}
RoomsCreatePoll == CreatePollIn(RoomEventIds)
RoomsVote == VoteFrom(RoomRequests, {{}}, {NoClient})
RoomsJoinPoll == JoinPollIn(RoomEventIds)
RoomsLeavePoll == LeavePollIn(RoomEventIds)
RoomsEmitVoteSubmitted == EmitVoteSubmittedIn(RoomEventIds)

NextRooms ==
    \/ RoomsCreatePoll \/ RoomsVote \/ Receive
    \/ Connect \/ Disconnect \/ RoomsJoinPoll \/ RoomsLeavePoll
    \/ RoomsEmitVoteSubmitted \/ Deliver

SpecRooms == Init /\ [][NextRooms]_vars

\* The address of the voter: votes on one poll whose headers are any of
\* AddressInputs.
AddressRequests ==
    {[pollId |-> "pollAAAA", optionIndex |-> JSNumber(0, FALSE),
      fingerprint |-> JSString("f1"), headers |-> h] : h \in AddressInputs}
NextAddress ==
    \/ CreatePollIn(LivePollIds)
    \/ VoteFrom(AddressRequests, {{}}, {NoClient})
    \/ Receive

SpecAddress == Init /\ [][NextAddress]_vars

\* The pages of one poll: each loads the poll, connects, joins the room,
\* votes, loses its connection (also while the response to its vote is on
\* its way) and connects again.
NextPage ==
    \/ CreatePollIn(LivePollIds)
    \/ LoadPollIn(LivePollIds)
    \/ VoteFrom({r \in LiveRequests : r.optionIndex = JSNumber(0, FALSE)},
                {{}}, LiveClients)
    \/ Receive
    \/ Connect \/ Disconnect \/ Drop
    \/ JoinPollIn(LivePollIds)
    \/ NotifyVote \/ Deliver

SpecPage == Init /\ [][NextPage]_vars

\* The creation form: the add button, the remove button of any entry and
\* typing into any entry, in any order. The handlers are taken as they are
\* written, also where the page disables or hides their button.
FormStep(next) ==
    /\ formOptions' = next
    /\ UNCHANGED <<polls, votes, now, httpVars, socketVars, voteHits, batch>>

NextForm ==
    \/ FormStep(addOption(formOptions))
    \/ \E index \in 0..(Len(formOptions) - 1) :
           FormStep(removeOption(formOptions, index))
    \/ \E index \in 0..(Len(formOptions) - 1), value \in {"", "a"} :
           FormStep(updateOption(formOptions, index, value))

SpecForm == Init /\ [][NextForm]_vars

\* Poll creation with any body.
NextCreate == CreatePollFrom(LivePollIds, CreateBodies) \/ Receive

SpecCreate == Init /\ [][NextCreate]_vars

\* A batch of concurrent votes on one poll of the store: the poll exists, no
\* vote is stored, and the batch is of any size up to MaxBatch, its requests
\* all relayed by one proxy or each sent from its own address.
InitBatch ==
    /\ polls = createPoll([p \in {} |-> 0], BatchPollId, "Q", <<"Red", "Blue">>, 0)
    /\ votes = <<>>
    /\ now = 0
    /\ lastReq = NoReq
    /\ lastRes = NoRes
    /\ connected = [s \in Sockets |-> FALSE]
    /\ rooms = [s \in Sockets |-> {}]
    /\ notify = [s \in Sockets |-> {}]
    /\ lastEvent = NoEvent
    /\ broadcasts = [p \in PollIds |-> 0]
    /\ owed = [s \in Sockets |-> {}]
    /\ voteHits = [k \in {} |-> 0]
    /\ answered = [s \in Sockets |-> {}]
    /\ gone = [s \in Sockets |-> {}]
    /\ pollData = [s \in Sockets |-> NoPage]
    /\ formOptions = <<"", "">>
    /\ \E n \in 1..MaxBatch, sharedPeer \in BOOLEAN :
           batch = [size |-> n, sharedPeer |-> sharedPeer, left |-> 1..n,
                    accepted |-> 0, faulted |-> FALSE, passed |-> 0,
                    elsewhere |-> 0]

NextBatch == BatchVote \/ Receive

SpecBatch == InitBatch /\ [][NextBatch]_vars

\* A batch of concurrent votes on one poll while the first identity of the
\* batch also votes on another poll.
InitAcross ==
    /\ polls = createPoll(createPoll([p \in {} |-> 0], BatchPollId, "Q",
                                     <<"Red", "Blue">>, 0),
                          ElsewherePollId, "Q", <<"Red", "Blue">>, 0)
    /\ votes = <<>>
    /\ now = 0
    /\ lastReq = NoReq
    /\ lastRes = NoRes
    /\ connected = [s \in Sockets |-> FALSE]
    /\ rooms = [s \in Sockets |-> {}]
    /\ notify = [s \in Sockets |-> {}]
    /\ lastEvent = NoEvent
    /\ broadcasts = [p \in PollIds |-> 0]
    /\ owed = [s \in Sockets |-> {}]
    /\ voteHits = [k \in {} |-> 0]
    /\ answered = [s \in Sockets |-> {}]
    /\ gone = [s \in Sockets |-> {}]
    /\ pollData = [s \in Sockets |-> NoPage]
    /\ formOptions = <<"", "">>
    /\ \E n \in 1..MaxBatch, sharedPeer \in BOOLEAN :
           batch = [size |-> n, sharedPeer |-> sharedPeer, left |-> 1..n,
                    accepted |-> 0, faulted |-> FALSE, passed |-> 0,
                    elsewhere |-> 0]

ElsewhereVote ==
    /\ Idle
    /\ batch.elsewhere < MaxElsewhere
    /\ VoteWith(ElsewhereRequest(batch.sharedPeer), {}, NoClient, MaxBatch + 1)
    /\ batch' = [batch EXCEPT
                    !.elsewhere = @ + 1,
                    !.passed = @ + Passed(ElsewhereRequest(batch.sharedPeer))]

NextAcross == BatchVote \/ ElsewhereVote \/ Receive

SpecAcross == InitAcross /\ [][NextAcross]_vars

(* ============================== properties ============================ *)
\* the step just taken handled a vote request
VoteStep == Idle /\ lastRes'.status # 0
Accepted(res) == res.status = 200
Rejected(res) == res.status \in {400, 403, 404, 429}
SamePollVotes(i, j) == i # j /\ votes[i].poll_id = votes[j].poll_id

\* C1: for every poll and every address, at most one stored vote of that
\* poll carries that address.
C1_OneVotePerAddress ==
    \A i, j \in 1..Len(votes) :
        SamePollVotes(i, j) => votes[i].ip_address # votes[j].ip_address

\* C2: for every poll and every fingerprint, at most one stored vote of that
\* poll carries that fingerprint.
C2_OneVotePerFingerprint ==
    \A i, j \in 1..Len(votes) :
        SamePollVotes(i, j) => votes[i].fingerprint # votes[j].fingerprint

\* C3: for every poll, the results that getPoll computes sum to the number of
\* vote rows stored for the poll.
C3_TallySumsToVotes ==
    \A p \in DOMAIN polls :
        SumSeq(getPoll(polls, votes, p).results) = Len(VotesOf(votes, p))

\* C4: a vote request answered with a rejection leaves the stored votes, the
\* polls' vote_count and every poll's tally as they were.
C4_RejectionChangesNothing ==
    [][(VoteStep /\ Rejected(lastRes'))
        => /\ votes' = votes
           /\ polls' = polls
           /\ \A p \in DOMAIN polls :
                 getPoll(polls', votes', p).results = getPoll(polls, votes, p).results]_vars

C4_Witness ==
    /\ lastRes.status \in {403, 429}
    /\ lastReq.pollId \in DOMAIN polls
    /\ VotesOf(votes, lastReq.pollId) # <<>>

\* C5: a vote request is accepted only if its optionIndex is an integer in
\* [0, optionCount) of its poll.
C5_AcceptedOnlyIntegerInRange ==
    Accepted(lastRes)
        => /\ IsInteger(lastReq.optionIndex)
           /\ lastReq.optionIndex.int >= 0
           /\ lastReq.optionIndex.int < Len(polls[lastReq.pollId].options)

\* the number of stored votes of poll p for option i, counted row by row
VotesFor(p, i) ==
    Cardinality({k \in 1..Len(votes) :
                    /\ votes[k].poll_id = p
                    /\ votes[k].option_index = JSNumber(i, FALSE)})
Tally(p) == [i \in 1..Len(polls[p].options) |-> VotesFor(p, i - 1)]

\* nothing is under way: no response, no emitted event, and no page has a
\* vote-submitted left to emit
Quiescent == Idle /\ \A s \in Sockets : notify[s] = {}

\* C6: each accepted vote results in exactly one poll-updated broadcast for
\* its poll; once nothing is under way, every poll has had as many
\* broadcasts as accepted votes.
C6_OneBroadcastPerVote ==
    Quiescent => \A p \in PollIds : broadcasts[p] = Len(VotesOf(votes, p))

\* C7: after a vote is accepted, every connection subscribed to its poll that
\* stays connected receives a poll-updated event; once nothing is under way,
\* no subscriber is still owed one.
C7_SubscribersGetUpdate ==
    Quiescent => \A s \in Sockets : owed[s] = {}

JoinSnapshots ==
    {m \in lastEvent.emitted : m.to = lastEvent.socket /\ m.event = "poll-data"}

BatchDone == batch.size > 0 /\ batch.left = {} /\ Idle

\* the requests of the batch that voteLimiter counts under one key
BatchFromPeer(key) ==
    {i \in 1..batch.size :
        BatchRequest(i, batch.sharedPeer).headers.remoteAddress = key}
BatchPeers ==
    {BatchRequest(i, batch.sharedPeer).headers.remoteAddress : i \in 1..batch.size}
BatchAllAccepted ==
    /\ batch.accepted = batch.size
    /\ Len(VotesOf(votes, BatchPollId)) = batch.size
    /\ SumSeq(getPoll(polls, votes, BatchPollId).results) = batch.size

CheckOrder == <<"option-type", "option-range", "duplicate-address",
                "duplicate-fingerprint", "velocity">>
ReasonOf(check) ==
    CASE check \in {"option-type", "option-range"} ->
             [status |-> 400, error |-> "Invalid option index"]
      [] check \in {"duplicate-address", "duplicate-fingerprint"} ->
             [status |-> 403, error |-> "You have already voted in this poll"]
      [] check = "velocity" ->
             [status |-> 429,
              error |-> "Too many votes. Please wait before voting again."]

\* the condition of a check holds of the request and the stored votes
WouldFail(check, r) ==
    CASE check = "option-type" ->
             r.optionIndex.type # "number" \/ r.optionIndex.int < 0
      [] check = "option-range" ->
             r.optionIndex.int >= Len(polls[r.pollId].options)
      [] check = "duplicate-address" ->
             \E k \in 1..Len(votes) : /\ votes[k].poll_id = r.pollId
                                      /\ votes[k].ip_address = r.ipAddress
      [] check = "duplicate-fingerprint" ->
             \E k \in 1..Len(votes) : /\ votes[k].poll_id = r.pollId
                                      /\ votes[k].fingerprint = r.fingerprint.str
      [] check = "velocity" ->
             \E k \in 1..Len(votes) : /\ votes[k].poll_id = r.pollId
                                      /\ votes[k].ip_address = r.ipAddress
                                      /\ votes[k].voted_at > now - VOTE_RATE_WINDOW_MS

AdmissionRejection(res) ==
    \E c \in {"option-range", "duplicate-address", "velocity"} :
        res.status = ReasonOf(c).status /\ res.error = ReasonOf(c).error

\* C10: the admission checks are evaluated in the order structural,
\* duplicate-by-address, duplicate-by-fingerprint, velocity; none is evaluated
\* after one that failed; the response is that of the check that failed; a
\* vote is accepted only after all four passed.
C10_ChecksInOrderFirstFailureWins ==
    LET ev == lastRes.evaluated
        n == Len(ev)
    IN /\ n <= Len(CheckOrder)
       /\ \A k \in 1..n : ev[k].check = CheckOrder[k]
       /\ \A k \in 1..n : ev[k].failed => /\ k = n
                                           /\ WouldFail(ev[k].check, lastReq)
                                           /\ lastRes.status = ReasonOf(ev[k].check).status
                                           /\ lastRes.error = ReasonOf(ev[k].check).error
       /\ AdmissionRejection(lastRes) => n > 0 /\ ev[n].failed
       /\ Accepted(lastRes) => n = Len(CheckOrder)

\* the address check rejected a request whose fingerprint had voted as well
C10_Witness ==
    LET ev == lastRes.evaluated
    IN /\ lastRes.status = 403
       /\ ev[Len(ev)].check = "duplicate-address"
       /\ WouldFail("duplicate-fingerprint", lastReq)

\* the reason the taxonomy gives for a failed admission check
ReasonClass(check) ==
    CASE check \in {"option-type", "option-range"} -> "invalid-option"
      [] check = "duplicate-address" -> "duplicate-address"
      [] check = "duplicate-fingerprint" -> "duplicate-fingerprint"
      [] check = "velocity" -> "rate-limited"

\* the check that failed for the request just answered, if one did
FailedChecks ==
    {lastRes.evaluated[k].check : k \in {i \in 1..Len(lastRes.evaluated) :
                                            lastRes.evaluated[i].failed}}

\* C11: the response to an admission rejection tells its reason: it is not
\* the response that a check of another reason (invalid-option,
\* duplicate-address, duplicate-fingerprint, rate-limited) sends.
C11_RejectionTellsReason ==
    \A c \in FailedChecks :
        \A d \in {x \in {"option-range", "duplicate-address",
                          "duplicate-fingerprint", "velocity"} :
                     ReasonClass(x) # ReasonClass(c)} :
            ReasonOf(d) # [status |-> lastRes.status, error |-> lastRes.error]

\* a vote request was answered and the answer is no success
Refused(res) == res.status # 0 /\ ~Accepted(res)

\* C12: a vote request that is rejected or malformed causes no poll-updated
\* broadcast: neither the server answering it nor the page receiving the
\* answer sends an event, counts a broadcast or queues a vote-submitted.
C12_RejectionBroadcastsNothing ==
    [][((VoteStep /\ Refused(lastRes')) \/ (Refused(lastRes) /\ lastRes'.status = 0))
        => /\ broadcasts' = broadcasts
           /\ lastEvent' = lastEvent
           /\ notify' = notify]_vars

\* a page whose poll has a subscriber is refused as a duplicate
C12_Witness ==
    /\ lastRes.status = 403
    /\ lastReq.client # NoClient
    /\ \E s \in Sockets : lastReq.pollId \in rooms[s]

\* the page of socket s emits the vote-submitted that follows its accepted
\* vote on pollId, and the server handles it
NotifyStep(s, pollId) ==
    /\ pollId \in notify[s]
    /\ pollId \notin notify'[s]
    /\ lastEvent'.kind = "vote-submitted"
    /\ lastEvent'.socket = s
    /\ lastEvent'.pollId = pollId

\* C13: the broadcast that an accepted vote triggers carries the tally that
\* the voter's HTTP response carried: the same results and totalVotes.
C13_BroadcastCarriesResponseTally ==
    [][\A s \in Sockets, pollId \in PollIds :
          NotifyStep(s, pollId) =>
              \A a \in {x \in answered[s] : x.pollId = pollId} :
                  \A m \in lastEvent'.emitted :
                      m.results = a.results /\ m.totalVotes = a.totalVotes]_vars

\* C14: the success response to an accepted vote carries the tally after the
\* commit: the chosen option counts one more than before the request, every
\* other option counts the same, and totalVotes is the number of votes
\* stored for the poll, this one included.
C14_ResponseCarriesPostCommitTally ==
    [][(VoteStep /\ Accepted(lastRes')) =>
          LET p == lastReq'.pollId
              o == lastReq'.optionIndex
              before == getPoll(polls, votes, p).results
          IN /\ IsInteger(o)
             /\ o.int + 1 \in DOMAIN before
             /\ lastRes'.results = [before EXCEPT ![o.int + 1] = @ + 1]
             /\ lastRes'.totalVotes = Len(VotesOf(votes', p))]_vars

\* C15: each connection is subscribed to at most one poll: a socket is a
\* member of at most one poll room.
C15_AtMostOneRoom == \A s \in Sockets : Cardinality(rooms[s]) <= 1

\* the server has just sent a poll-updated broadcast for a poll
Broadcast ==
    /\ lastEvent.kind = "vote-submitted"
    /\ ~lastEvent.threw
    /\ lastEvent.pollId \in DOMAIN polls

\* the sockets the events just emitted are addressed to
Recipients == {m.to : m \in lastEvent.emitted}

JoinStep(s, pollId) ==
    /\ Idle
    /\ lastEvent'.kind = "join-poll"
    /\ lastEvent'.socket = s
    /\ lastEvent'.pollId = pollId

\* the server sends a poll-updated broadcast for pollId
BroadcastStep(pollId) ==
    /\ Idle
    /\ lastEvent'.kind = "vote-submitted"
    /\ lastEvent'.pollId = pollId
    /\ broadcasts'[pollId] = broadcasts[pollId] + 1

\* C17: joining is idempotent: a join-poll of a socket for a poll whose room
\* it is already in leaves every room as it is, and a broadcast for a poll
\* sends each member of its room exactly one poll-updated event.
C17_JoinIdempotent ==
    [][\A pollId \in PollIds :
          /\ \A s \in Sockets :
                 (JoinStep(s, pollId) /\ pollId \in rooms[s]) => rooms' = rooms
          /\ BroadcastStep(pollId) =>
                 \A s \in RoomMembers(rooms, pollId) :
                     Cardinality({m \in lastEvent'.emitted :
                                     m.to = s /\ m.event = "poll-updated"}) = 1]_vars

\* a socket joins a poll whose room it has been in since before the poll's
\* last vote
C17_Witness ==
    /\ lastEvent.kind = "join-poll"
    /\ lastEvent.pollId \in owed[lastEvent.socket]
    /\ lastEvent.pollId \in rooms[lastEvent.socket]

\* C18: a poll-updated broadcast for a poll is sent to every socket in the
\* poll's room and to no other socket, and it carries that poll's tally.
C18_BroadcastToRoomOnly ==
    Broadcast =>
        /\ Recipients = RoomMembers(rooms, lastEvent.pollId)
        /\ \A m \in lastEvent.emitted :
               /\ m.event = "poll-updated"
               /\ m.results = getPoll(polls, votes, lastEvent.pollId).results

\* a broadcast reaches a member while a socket is in the other poll's room only
C18_Witness ==
    /\ Broadcast
    /\ Recipients # {}
    /\ \E t \in Sockets :
           /\ connected[t]
           /\ rooms[t] # {}
           /\ lastEvent.pollId \notin rooms[t]

\* C19: a socket that left a poll's room by leave-poll and has not joined it
\* since is sent no poll-updated event for that poll.
C19_NoUpdateAfterLeave ==
    \A m \in lastEvent.emitted :
        m.event = "poll-updated" =>
            [pollId |-> lastEvent.pollId, by |-> "leave-poll"] \notin gone[m.to]

\* a broadcast reaches a room that a connected socket has left
C19_Witness ==
    /\ Broadcast
    /\ Recipients # {}
    /\ \E s \in Sockets :
           /\ connected[s]
           /\ [pollId |-> lastEvent.pollId, by |-> "leave-poll"] \in gone[s]

\* a fingerprint that is missing, empty or not a string
BadFingerprint(fingerprint) == fingerprint.type # "string" \/ fingerprint.str = ""

\* C20: a vote request whose fingerprint is missing, empty or not a string,
\* or whose poll does not exist, is answered with an error in the same step,
\* stores nothing, and is answered before a duplicate or velocity check is
\* evaluated.
C20_BadFingerprintOrPollRejectedEarly ==
    [][(VoteStep /\ (\/ BadFingerprint(lastReq'.fingerprint)
                     \/ lastReq'.pollId \notin DOMAIN polls)) =>
          /\ lastRes'.status >= 400
          /\ votes' = votes
          /\ polls' = polls
          /\ \A k \in 1..Len(lastRes'.evaluated) :
                 lastRes'.evaluated[k].check \notin
                     {"duplicate-address", "duplicate-fingerprint", "velocity"}]_vars

\* a request without a usable fingerprint is refused although its address
\* has a vote stored on the poll
C20_Witness ==
    /\ lastRes.status = 400
    /\ lastRes.error = "Invalid fingerprint"
    /\ BadFingerprint(lastReq.fingerprint)
    /\ \E i \in 1..Len(votes) :
           /\ votes[i].poll_id = lastReq.pollId
           /\ votes[i].ip_address = lastReq.ipAddress

\* the address the derivation rules give for the headers of a request
DerivedAddress(headers) ==
    IF Forwarded(headers) THEN headers.xff[1].text
    ELSE IF headers.xRealIp # "" THEN headers.xRealIp
    ELSE IF headers.remoteAddress # "" THEN headers.remoteAddress
    ELSE "unknown"

\* C21: the address of the voter is the first entry of X-Forwarded-For if
\* the header is present, else X-Real-IP if present, else the address of the
\* peer, else "unknown", and it is never empty.
C21_AddressDerivedNeverEmpty ==
    lastRes.status # 0 =>
        /\ lastReq.ipAddress = DerivedAddress(lastReq.headers)
        /\ lastReq.ipAddress # ""

\* C22: a poll, once created, is never deleted, and its identifier, question,
\* option list and creation timestamp never change, whatever is done later.
C22_PollImmutable ==
    [][\A p \in DOMAIN polls :
          /\ p \in DOMAIN polls'
          /\ polls'[p].question = polls[p].question
          /\ polls'[p].options = polls[p].options
          /\ polls'[p].created_at = polls[p].created_at]_vars

\* a poll has taken a vote and another poll was created after it
C22_Witness ==
    \E p \in DOMAIN polls, q \in DOMAIN polls :
        /\ polls[p].vote_count > 0
        /\ polls[q].created_at > polls[p].created_at
        /\ now > polls[p].created_at

\* C23: votes are append-only: a stored vote row never changes and is never
\* removed, so no count of a poll's tally and no total ever decreases.
C23_VotesAppendOnly ==
    [][/\ Len(votes') >= Len(votes)
       /\ \A i \in 1..Len(votes) : votes'[i] = votes[i]
       /\ \A p \in DOMAIN polls :
              LET before == getPoll(polls, votes, p).results
                  after == getPoll(polls', votes', p).results
              IN /\ \A i \in DOMAIN before : after[i] >= before[i]
                 /\ SumSeq(after) >= SumSeq(before)]_vars

\* a poll holds two votes, the second stored after the first
C23_Witness ==
    \E i \in 1..Len(votes), j \in 1..Len(votes) :
        /\ i < j
        /\ votes[i].poll_id = votes[j].poll_id
        /\ votes[j].voted_at > votes[i].voted_at

\* no vote of the poll is stored for the address or the fingerprint
NewToPoll(req) ==
    \A i \in 1..Len(votes) :
        votes[i].poll_id = req.pollId =>
            /\ votes[i].ip_address # req.ipAddress
            /\ votes[i].fingerprint # req.fingerprint.str

\* the votes, the tally and the row of every poll but the one voted on stay
\* as they are
OtherPollsUntouched ==
    \A q \in DOMAIN polls \ {lastReq'.pollId} :
        /\ VotesOf(votes', q) = VotesOf(votes, q)
        /\ getPoll(polls', votes', q).results = getPoll(polls, votes, q).results
        /\ polls'[q] = polls[q]

WithinLength(t, max) == t.type = "string" /\ Length(t) >= 1 /\ Length(t) <= max
OptionsWithinLimits(items) ==
    /\ Len(items) >= MIN_OPTIONS
    /\ Len(items) <= MAX_OPTIONS
    /\ \A i \in 1..Len(items) : WithinLength(items[i], MAX_OPTION_LENGTH)

\* C25: every stored poll has a question of 1 to 500 characters and 2 to 10
\* options of 1 to 200 characters each, and a creation request outside
\* these limits is answered 400 and creates no poll.
C25_StoredPollWithinLimits ==
    [][(Idle /\ lastReq'.route = "polls") =>
          /\ ~(/\ WithinLength(lastReq'.body.question, MAX_QUESTION_LENGTH)
                /\ lastReq'.body.options.isArray
                /\ OptionsWithinLimits(lastReq'.body.options.items))
                 => lastRes'.status = 400 /\ polls' = polls
          /\ \A p \in DOMAIN polls' :
                 /\ WithinLength(polls'[p].question, MAX_QUESTION_LENGTH)
                 /\ OptionsWithinLimits(polls'[p].options)]_vars

\* C26: every vote request that reaches the handler is answered exactly
\* once, and when the poll load, the commit or the tally read throws, the
\* one response is the failure response 500 'Failed to submit vote'.
C26_OneResponsePerVoteRequest ==
    [][(Idle /\ lastReq'.route = "votes") =>
          /\ lastRes'.sent = 1
          /\ lastRes'.status # 0
          /\ lastRes'.threw # {} =>
                 /\ lastRes'.status = 500
                 /\ lastRes'.error = "Failed to submit vote"]_vars

\* the tally read threw after the commit and the caller has its response
C26_Witness ==
    /\ lastReq.route = "votes"
    /\ lastRes.threw = {"getPollAfter"}
    /\ lastRes.sent = 1
    /\ lastRes.status = 500

C28_ReconnectShowsLatestTally ==
    [][\A s \in Sockets :
          (/\ lastEvent.kind = "join-poll"
           /\ lastEvent.socket = s
           /\ lastEvent.emitted # {}
           /\ lastEvent' = NoEvent
           /\ pollData[s].loaded
           /\ pollData[s].missed)
              => pollData'[s].results
                     = getPoll(polls, votes, lastEvent.pollId).results]_vars

C30_FormOptionsBetweenTwoAndTen ==
    /\ Len(formOptions) >= 2
    /\ Len(formOptions) <= 10
    /\ Len(formOptions) = 10 => addOption(formOptions) = formOptions
    /\ Len(formOptions) = 2 =>
           \A index \in 0..1 : removeOption(formOptions, index) = formOptions

\* addOption has filled the list up to ten entries, one of them typed into
C30_Witness ==
    /\ Len(formOptions) = 10
    /\ formOptions[1] = ""
    /\ formOptions[9] = "a"
    /\ formOptions[10] = ""

\* C31: a vote request whose duplicate-by-address lookup returned without a
\* storage error is never rejected by the velocity check.
C31_VelocityNeverRejects ==
    [][(/\ Idle
        /\ lastReq'.route = "votes"
        /\ "hasVotedByIP" \notin lastRes'.swallowed)
           => lastRes'.error # "Too many votes. Please wait before voting again."]_vars

\* the address has a vote on the poll inside the window, no lookup failed,
\* and the request is rejected as a duplicate
C31_Witness ==
    /\ lastReq.route = "votes"
    /\ lastRes.swallowed = {}
    /\ lastRes.status = 403
    /\ getRecentVoteCount(votes, lastReq.pollId, lastReq.ipAddress,
                          VOTE_RATE_WINDOW_MS, now, FALSE) >= VOTES_PER_IP_PER_POLL

\* C32: after every step each poll's vote_count is the number of vote rows
\* stored for the poll, and a vote request whose addVote threw has changed
\* neither the rows nor the counts.
C32_VoteCountMatchesRows ==
    [][/\ \A p \in DOMAIN polls' :
              polls'[p].vote_count = Len(VotesOf(votes', p))
       /\ (Idle /\ "addVote" \in lastRes'.threw) =>
              votes' = votes /\ polls' = polls]_vars

\* a poll holds a vote and a later addVote has thrown
C32_Witness ==
    /\ lastRes.threw = {"addVote"}
    /\ \E p \in DOMAIN polls :
           polls[p].vote_count >= 1 /\ polls[p].vote_count = Len(VotesOf(votes, p))

\* C33: every poll-updated event carries the tally of the votes stored for
\* its poll when it is emitted, whichever socket asked for the broadcast,
\* and no step lowers the count of any option of any poll, so that the
\* broadcasts of a poll carry totals that never decrease.
C33_BroadcastCarriesCurrentTally ==
    [][/\ \A pollId \in PollIds :
              BroadcastStep(pollId) =>
                  \A m \in lastEvent'.emitted :
                      /\ m.event = "poll-updated"
                      /\ m.results = Tally(pollId)
                      /\ m.totalVotes = SumSeq(Tally(pollId))
       /\ \A p \in DOMAIN polls :
              /\ p \in DOMAIN polls'
              /\ \A i \in 1..Len(polls[p].options) :
                     Tally(p)'[i] >= Tally(p)[i]]_vars

\* the second broadcast of a poll is under way and carries two votes
C33_Witness ==
    /\ lastEvent.kind = "vote-submitted"
    /\ lastEvent.pollId \in DOMAIN polls
    /\ broadcasts[lastEvent.pollId] = 2
    /\ \E m \in lastEvent.emitted : m.totalVotes = 2

\* C34: when the lookup by address, the lookup by fingerprint or the count
\* of recent votes throws, its check is passed as if nothing had been
\* found, the handler goes on to the next check or to the commit, and the
\* request is not answered with the failure response on that account.
C34_LookupFailureLetsRequestPass ==
    [][(Idle /\ lastReq'.route = "votes") =>
          \A call \in lastRes'.swallowed :
              LET check == CASE call = "hasVotedByIP" -> "duplicate-address"
                             [] call = "hasVotedByFingerprint" -> "duplicate-fingerprint"
                             [] OTHER -> "velocity"
                  ev == lastRes'.evaluated
              IN /\ call \in {"hasVotedByIP", "hasVotedByFingerprint",
                               "getRecentVoteCount"}
                 /\ \E k \in 1..Len(ev) :
                        /\ ev[k].check = check
                        /\ ~ev[k].failed
                        /\ k < Len(ev) \/ lastRes'.status \in {200, 500}
                 /\ lastRes'.threw = {} => lastRes'.status # 500]_vars

\* the lookup by address threw and a second vote of the address is stored
C34_Witness ==
    /\ lastRes.status = 200
    /\ lastRes.swallowed = {"hasVotedByIP"}
    /\ \E i, j \in 1..Len(votes) :
           /\ i < j
           /\ votes[i].poll_id = lastReq.pollId
           /\ votes[j].poll_id = lastReq.pollId
           /\ votes[i].ip_address = lastReq.ipAddress
           /\ votes[j].ip_address = lastReq.ipAddress

\* C35: a vote request answered with anything but success has stored no
\* vote.
C35_FailureStoresNothing ==
    [][(Idle /\ lastReq'.route = "votes" /\ ~Accepted(lastRes'))
           => votes' = votes /\ polls' = polls]_vars

\* C36: a step that changes the stored polls or votes is a vote request
\* answered with success or a poll creation that succeeded; socket events
\* and the reads of a poll change neither.
C36_OnlyVotesAndCreationsWrite ==
    [][(votes' # votes \/ polls' # polls) =>
          /\ Idle
          /\ \/ lastReq'.route = "votes" /\ Accepted(lastRes')
             \/ /\ votes' = votes
                /\ lastReq'.route = "polls" => lastRes'.status = 201
                /\ \E id \in DOMAIN polls' \ DOMAIN polls :
                       /\ DOMAIN polls' = DOMAIN polls \cup {id}
                       /\ \A p \in DOMAIN polls : polls'[p] = polls[p]]_vars

\* C37: a page sets hasVoted and the localStorage item, and has a
\* vote-submitted to emit, only on receiving the success response to its
\* own vote; it emits vote-submitted only when it has one to emit; and
\* hasVoted, once true, stays true.
C37_MarkedOnlyAfterSuccess ==
    [][\A s \in Sockets :
          LET success == /\ lastRes.status = 200
                         /\ lastReq.client = s
                         /\ lastRes' = NoRes
              loading == ~pollData[s].loaded /\ pollData[s].flag
          IN /\ (pollData'[s].hasVoted /\ ~pollData[s].hasVoted)
                    => success \/ loading
             /\ (pollData'[s].flag /\ ~pollData[s].flag) => success
             /\ notify'[s] \ notify[s] # {} => success
             /\ (/\ lastEvent.kind = "none"
                 /\ lastEvent'.kind = "vote-submitted"
                 /\ lastEvent'.socket = s) => lastEvent'.pollId \in notify[s]
             /\ pollData[s].hasVoted => pollData'[s].hasVoted]_vars

\* one page has voted with success and is marked; the other has had its
\* vote rejected and is not
C37_Witness ==
    \E s, t \in Sockets :
        /\ pollData[s].hasVoted
        /\ pollData[s].flag
        /\ pollData[t].loaded
        /\ ~pollData[t].hasVoted
        /\ lastReq.client = t
        /\ lastRes.status = 403

====
